---- MODULE Spec2Model ----
(***************************************************************************)
(* json-pretty-compact: a serde_json formatter that keeps arrays and       *)
(* objects on one line while the line stays within a maximum length.       *)
(*                                                                         *)
(* Two units of the crate are modelled:                                    *)
(*   unit = "fmt"    PrettyCompactFormatter (src/src/fmt.rs): the event    *)
(*                   handlers of the serde_json Formatter trait, which     *)
(*                   keep a token queue and reduce every finished array or *)
(*                   object to one rendered Data token;                    *)
(*   unit = "token"  Token (src/src/token.rs): the token tree with its     *)
(*                   length / can_compact / format methods, applied to a   *)
(*                   tree drawn from a bounded set.                        *)
(* Bytes are one-character strings, byte vectors are sequences of them.    *)
(* An Option is a sequence of length 0 (None) or 1 (Some).                 *)
(***************************************************************************)
EXTENDS Integers, Sequences, FiniteSets, TLC

VARIABLES
    unit,       \* "fmt" or "token": the unit this behaviour exercises
    indent,     \* PrettyCompactFormatter.indent / Options.indent
    max_len,    \* PrettyCompactFormatter.max_len / Options.max_len (Option<u32>)
    token,      \* PrettyCompactFormatter.token: Vec<Token>
    level,      \* PrettyCompactFormatter.level
    out,        \* the writer handed to the Formatter methods
    err,        \* the result of the last Formatter call: "Ok" or the Error
    ctx,        \* the serializer's position in the value it walks
    canon,      \* what CompactFormatter writes for the same calls
    nEvents,    \* number of Formatter calls made so far
    docs,       \* number of top-level values the serializer has finished
    aborted,    \* a call has returned an error and left tokens in the queue
    fresh,      \* a formatter constructed anew for the current top-level
                \* value, and the writer's content when that value began
    tree,       \* unit "token": the Token under test
    tpc,        \* unit "token": "ready", or the method applied last
    tres        \* unit "token": what that method returned / wrote

vars == <<unit, indent, max_len, token, level, out, err, ctx, canon, nEvents,
          docs, aborted, fresh, tree, tpc, tres>>

fmtVars ==
    <<token, level, out, err, ctx, canon, nEvents, docs, aborted, fresh>>
tokenVars == <<tree, tpc, tres>>

----------------------------------------------------------------------------
(* Bounds of the model *)

MaxEvents == 8      \* Formatter calls per behaviour
MaxNodes == 5       \* nodes of the Token tree under test

(* Program constants *)

DEFAULT_INDENT == 2
DefaultMaxLen == 120

None == <<>>
Some(x) == <<x>>
IsSome(o) == o # <<>>
Unwrap(o) == o[1]

DEFAULT_MAX_LEN == Some(DefaultMaxLen)

(* The values handed to with_indent / with_max_line_length and to Options *)
Indents == {0, 2}
MaxLens == {4, 5, 7}

dq == "\""
sp == " "
nl == "\n"

Spaces(n) == [i \in 1..n |-> sp]

RECURSIVE SumLen(_)
(* fold(0, |acc, buf| acc + buf.len()) over a slice of byte vectors *)
SumLen(bufs) ==
    IF bufs = <<>> THEN 0 ELSE Len(Head(bufs)) + SumLen(Tail(bufs))

----------------------------------------------------------------------------
(* enum Token *)

Tok(k, l, d, ts) == [kind |-> k, level |-> l, data |-> d, token |-> ts]

BeginObject(l) == Tok("BeginObject", l, <<>>, <<>>)
EndObject == Tok("EndObject", 0, <<>>, <<>>)
BeginArray(l) == Tok("BeginArray", l, <<>>, <<>>)
EndArray == Tok("EndArray", 0, <<>>, <<>>)
Data(vec) == Tok("Data", 0, vec, <<>>)
Array(l, ts) == Tok("Array", l, <<>>, ts)
Object(l, ts) == Tok("Object", l, <<>>, ts)

as_begin_object(t) == IF t.kind = "BeginObject" THEN Some(t.level) ELSE None
is_end_object(t) == t.kind = "EndObject"
as_begin_array(t) == IF t.kind = "BeginArray" THEN Some(t.level) ELSE None
is_end_array(t) == t.kind = "EndArray"
as_data(t) == IF t.kind = "Data" THEN Some(t.data) ELSE None

(* A Result: ok with a value, or the Error *)
Ok(v) == [ok |-> TRUE, val |-> v, err |-> "Ok"]
Err(e) == [ok |-> FALSE, val |-> <<>>, err |-> e]

as_data_err(t) ==
    IF IsSome(as_data(t)) THEN Ok(Unwrap(as_data(t))) ELSE Err("UnexpectedEvent")

as_begin_array_err(t) ==
    IF IsSome(as_begin_array(t)) THEN Ok(Unwrap(as_begin_array(t)))
    ELSE Err("UnexpectedEvent")

as_begin_object_err(t) ==
    IF IsSome(as_begin_object(t)) THEN Ok(Unwrap(as_begin_object(t)))
    ELSE Err("UnexpectedEvent")

(* The closing delimiter after the loop; first = nothing was written *)
(* Closing that puts the closer of an expanded compound at the start of
   its line whatever the depth *)
Closing_NoIndent(close, first, compact, spaces) ==
    IF compact /\ first THEN <<close>>
    ELSE IF compact /\ ~first THEN <<sp, close>>
    ELSE <<nl, close>>

Closing(close, first, compact, spaces) ==
    IF compact /\ first THEN <<close>>
    ELSE IF compact /\ ~first THEN <<sp, close>>
    ELSE <<nl>> \o Spaces(spaces) \o <<close>>

----------------------------------------------------------------------------
(* impl Token: length, can_compact, format *)

RECURSIVE length(_)
RECURSIVE SumLength(_)
(* token.iter().fold(0, |acc, t| acc + t.length()) *)
SumLength(ts) ==
    IF ts = <<>> THEN 0 ELSE length(Head(ts)) + SumLength(Tail(ts))

(* n.checked_sub(1).unwrap_or(0) *)
SubOneOrZero(n) == IF n >= 1 THEN n - 1 ELSE 0

ArrayLength(t) ==
    LET n == SumLength(t.token)
        inner == n + SubOneOrZero(Len(t.token)) * 2
    IN  IF inner > 0 THEN 4 + inner ELSE 3

ObjectLength(t) ==
    LET n == SumLength(t.token)
        num_keys == Len(t.token) \div 2
        inner == n + 2 * num_keys + SubOneOrZero(num_keys) * 2
    IN  IF inner > 0 THEN 4 + inner ELSE 3

length(t) ==
    CASE t.kind = "Data" -> Len(t.data)
      [] t.kind = "Array" -> ArrayLength(t)
      [] t.kind = "Object" -> ObjectLength(t)
      [] OTHER -> 0

(* can_compact that takes an unset max_len for "no limit" *)
can_compact_Unlimited(t, ind, ml, forced_indent) ==
    IF t.kind \in {"Array", "Object"}
    THEN IF IsSome(ml)
         THEN (IF IsSome(forced_indent) THEN Unwrap(forced_indent)
               ELSE t.level * ind) + length(t) < Unwrap(ml)
         ELSE TRUE
    ELSE TRUE

(* forced_indent: Option<usize> *)
can_compact(t, ind, ml, forced_indent) ==
    IF t.kind \in {"Array", "Object"}
    THEN /\ IsSome(ml)
         /\ (IF IsSome(forced_indent) THEN Unwrap(forced_indent)
             ELSE t.level * ind) + length(t) < Unwrap(ml)
    ELSE TRUE

(* What a format call leaves: the bytes it wrote to the writer and its
   result.  An error stops the writing where it occurs. *)
Wr(bytes, e) == [out |-> bytes, err |-> e]
Then(a, b) == IF a.err # "Ok" THEN a ELSE Wr(a.out \o b.out, b.err)

RECURSIVE format(_, _, _, _)
RECURSIVE FormatArrayItems(_, _, _, _, _, _)
RECURSIVE FormatObjectItems(_, _, _, _, _, _, _)

(* The loop over the children of an Array *)
FormatArrayItems(ts, first, compact, spaces_next, ind, ml) ==
    IF ts = <<>> THEN Wr(<<>>, "Ok")
    ELSE Then(
           Then(Wr((IF first THEN <<>>
                    ELSE IF compact THEN <<",", sp>> ELSE <<",", nl>>)
                   \o (IF compact THEN <<>> ELSE Spaces(spaces_next)), "Ok"),
                format(Head(ts), ind, ml, None)),
           FormatArrayItems(Tail(ts), FALSE, compact, spaces_next, ind, ml))

(* cur_indent when the value of a pair is reached; cur is its value when
   the iteration starts *)
KeyColumn(cur, first, compact, spaces_next, key) ==
    LET afterSep == IF first THEN cur ELSE IF compact THEN cur + 2 ELSE 0
        afterIndent == IF compact THEN afterSep ELSE afterSep + spaces_next
    IN  afterIndent + Len(key) + 2

(* The loop over chunks_exact(2) of the children of an Object *)
FormatObjectItems(ts, first, compact, cur_indent, spaces_next, ind, ml) ==
    IF Len(ts) < 2 THEN Wr(<<>>, "Ok")
    ELSE LET key == as_data_err(ts[1])
             col == KeyColumn(cur_indent, first, compact, spaces_next, key.val)
             forced_compact == can_compact(ts[2], ind, ml, Some(col))
         IN  IF ~key.ok THEN Wr(<<>>, key.err)
             ELSE Then(
               Then(Wr((IF first THEN <<>>
                        ELSE IF compact THEN <<",", sp>> ELSE <<",", nl>>)
                       \o (IF compact THEN <<>> ELSE Spaces(spaces_next))
                       \o key.val \o <<":", sp>>, "Ok"),
                    IF ~forced_compact
                    THEN format(ts[2], ind, ml, Some(FALSE))
                    ELSE format(ts[2], ind, ml, None)),
               FormatObjectItems(SubSeq(ts, 3, Len(ts)), FALSE, compact, col,
                                 spaces_next, ind, ml))

(* forced_compact: Option<bool> *)
Compact(t, ind, ml, forced_compact) ==
    IF IsSome(forced_compact) THEN Unwrap(forced_compact)
    ELSE can_compact(t, ind, ml, None)

FormatArray(t, ind, ml, forced_compact) ==
    LET compact == Compact(t, ind, ml, forced_compact)
    IN  Then(Then(Wr(IF compact THEN <<"[", sp>> ELSE <<"[", nl>>, "Ok"),
                  FormatArrayItems(t.token, TRUE, compact,
                                   (t.level + 1) * ind, ind, ml)),
             Wr(Closing("]", t.token = <<>>, compact, t.level * ind), "Ok"))

FormatObject(t, ind, ml, forced_compact) ==
    LET compact == Compact(t, ind, ml, forced_compact)
    IN  Then(Then(Wr(IF compact THEN <<"{", sp>> ELSE <<"{", nl>>, "Ok"),
                  FormatObjectItems(t.token, TRUE, compact,
                                    IF compact THEN 2 ELSE t.level * ind,
                                    (t.level + 1) * ind, ind, ml)),
             Wr(Closing("}", Len(t.token) < 2, compact, t.level * ind), "Ok"))

format(t, ind, ml, forced_compact) ==
    CASE t.kind = "Data" -> Wr(t.data, "Ok")
      [] t.kind = "Array" -> FormatArray(t, ind, ml, forced_compact)
      [] t.kind = "Object" -> FormatObject(t, ind, ml, forced_compact)
      [] OTHER -> Wr(<<>>, "Ok")

----------------------------------------------------------------------------
(* PrettyCompactFormatter: the reduction of a finished array or object *)

SetMax(S) == CHOOSE x \in S : \A y \in S : y <= x

(* The closure handed to find_last_token, named by the method it calls *)
predicate_call(predicate, t) ==
    IF predicate = "as_begin_array" THEN as_begin_array(t)
    ELSE as_begin_object(t)

(* find_last_token scanning from the bottom of the queue (no rev()) *)
find_last_token_NoRev(tok, predicate) ==
    LET hits == {i \in 1..Len(tok) : IsSome(predicate_call(predicate, tok[i]))}
        first == CHOOSE i \in hits : \A j \in hits : i <= j
    IN  IF hits = {} THEN None
        ELSE Some(<<first, Unwrap(predicate_call(predicate, tok[first]))>>)

(* Scan the queue from its end for the first token the predicate accepts:
   Some(<<idx, n>>) or None.  Indexes are 1-based. *)
find_last_token(tok, predicate) ==
    LET hits == {i \in 1..Len(tok) : IsSome(predicate_call(predicate, tok[i]))}
    IN  IF hits = {} THEN None
        ELSE Some(<<SetMax(hits),
                    Unwrap(predicate_call(predicate, tok[SetMax(hits)]))>>)

(* The Data buffers of a slice (filter_map(|t| t.as_data())) *)
DataBufs(ts) ==
    LET keep == SelectSeq(ts, LAMBDA t : IsSome(as_data(t)))
    IN  [i \in 1..Len(keep) |-> keep[i].data]

(* The width can_compact_array gives the tokens between the markers,
   before the indentation is added *)
array_len(ts) ==
    IF ts = <<>> THEN 3
    ELSE 4 + SumLen(DataBufs(ts)) + (Len(ts) - 1) * 2

(* The same in can_compact_object *)
object_len(ts) ==
    IF ts = <<>> THEN 3
    ELSE 4 + SumLen(DataBufs(ts)) + (Len(ts) - 1) * 3

(* can_compact_array taking an unset max_len for "no limit" *)
can_compact_array_NoLimit(tok, idx, ind, ml) ==
    LET lvl == as_begin_array_err(tok[idx])
        ts == SubSeq(tok, idx + 1, Len(tok) - 1)
        len == array_len(ts) + lvl.val * ind
    IN  IF ~lvl.ok THEN lvl
        ELSE IF ~IsSome(ml) THEN Ok(TRUE)
        ELSE IF len <= Unwrap(ml) THEN Ok(TRUE)
        ELSE Ok(FALSE)

can_compact_array(tok, idx, ind, ml) ==
    LET lvl == as_begin_array_err(tok[idx])
        ts == SubSeq(tok, idx + 1, Len(tok) - 1)
        len == array_len(ts) + lvl.val * ind
    IN  IF ~lvl.ok THEN lvl
        ELSE IF IsSome(ml) /\ len <= Unwrap(ml) THEN Ok(TRUE)
        ELSE Ok(FALSE)

can_compact_object(tok, idx, ind, ml) ==
    LET lvl == as_begin_object_err(tok[idx])
        ts == SubSeq(tok, idx + 1, Len(tok) - 1)
        len == object_len(ts) + lvl.val * ind
    IN  IF ~lvl.ok THEN lvl
        ELSE IF IsSome(ml) /\ len <= Unwrap(ml) THEN Ok(TRUE)
        ELSE Ok(FALSE)

RECURSIVE ArrayItems_NoComma(_, _, _, _)
(* ArrayItems that separates the values of an expanded array by the
   newline alone *)
ArrayItems_NoComma(values, first, compact, spaces_next) ==
    IF values = <<>> THEN <<>>
    ELSE (IF first THEN <<>> ELSE IF compact THEN <<",", sp>> ELSE <<nl>>)
         \o (IF compact THEN <<>> ELSE Spaces(spaces_next))
         \o Head(values)
         \o ArrayItems_NoComma(Tail(values), FALSE, compact, spaces_next)

RECURSIVE ArrayItems(_, _, _, _)
(* The loop of format_array over the values: separator, indentation, value *)
ArrayItems(values, first, compact, spaces_next) ==
    IF values = <<>> THEN <<>>
    ELSE (IF first THEN <<>> ELSE IF compact THEN <<",", sp>> ELSE <<",", nl>>)
         \o (IF compact THEN <<>> ELSE Spaces(spaces_next))
         \o Head(values)
         \o ArrayItems(Tail(values), FALSE, compact, spaces_next)

RECURSIVE ObjectItems(_, _, _, _)
(* The loop of format_object over chunks_exact(2): key, ": ", value *)
ObjectItems(bufs, first, compact, spaces_next) ==
    IF Len(bufs) < 2 THEN <<>>
    ELSE (IF first THEN <<>> ELSE IF compact THEN <<",", sp>> ELSE <<",", nl>>)
         \o (IF compact THEN <<>> ELSE Spaces(spaces_next))
         \o bufs[1] \o <<":", sp>> \o bufs[2]
         \o ObjectItems(SubSeq(bufs, 3, Len(bufs)), FALSE, compact, spaces_next)

(* Result of a reduction: the error, or the new token queue *)
format_array(tok, ind, ml) ==
    LET found == find_last_token(tok, "as_begin_array")
        idx == Unwrap(found)[1]
        lvl == Unwrap(found)[2]
        compact == can_compact_array(tok, idx, ind, ml)
        ts == SubSeq(tok, idx + 1, Len(tok) - 1)
        cursor == (IF compact.val THEN <<"[", sp>> ELSE <<"[", nl>>)
                  \o ArrayItems(DataBufs(ts), TRUE, compact.val, (lvl + 1) * ind)
                  \o Closing("]", ts = <<>>, compact.val, lvl * ind)
    IN  IF found = None THEN Err("NoArrayStart")
        ELSE IF ~compact.ok THEN compact
        ELSE IF \E i \in 1..Len(ts) : ~as_data_err(ts[i]).ok
             THEN Err("UnexpectedEvent")
        ELSE Ok(SubSeq(tok, 1, idx - 1) \o <<Data(cursor)>>)

format_object(tok, ind, ml) ==
    LET found == find_last_token(tok, "as_begin_object")
        idx == Unwrap(found)[1]
        lvl == Unwrap(found)[2]
        compact == can_compact_object(tok, idx, ind, ml)
        rest == SubSeq(tok, idx + 1, Len(tok))
        \* chunks_exact(2) drops an odd last element
        ts == SubSeq(rest, 1, 2 * (Len(rest) \div 2))
        cursor == (IF compact.val THEN <<"{", sp>> ELSE <<"{", nl>>)
                  \o ObjectItems(DataBufs(ts), TRUE, compact.val, (lvl + 1) * ind)
                  \o Closing("}", ts = <<>>, compact.val, lvl * ind)
    IN  IF found = None THEN Err("NoObjectStart")
        ELSE IF ~compact.ok THEN compact
        ELSE IF \E i \in 1..Len(ts) : ~as_data_err(ts[i]).ok
             THEN Err("UnexpectedEvent")
        ELSE Ok(SubSeq(tok, 1, idx - 1) \o <<Data(cursor)>>)

(* The formatter's mutable state seen by one call, and what the call
   leaves: the queue, the level, the writer, the call's result *)
St(tok, lvl, w, e) == [token |-> tok, level |-> lvl, out |-> w, err |-> e]

(* format_json that writes the finished value and leaves it in the queue *)
format_json_NoPop(tok, lvl, w, ind, ml) ==
    LET n == Len(tok)
        red == IF n > 0 /\ is_end_array(tok[n]) THEN format_array(tok, ind, ml)
               ELSE IF n > 0 /\ is_end_object(tok[n]) THEN format_object(tok, ind, ml)
               ELSE Ok(tok)
    IN  IF ~red.ok THEN St(tok, lvl, w, red.err)
        ELSE IF Len(red.val) = 1 /\ IsSome(as_data(red.val[1]))
             THEN St(red.val, lvl, w \o red.val[1].data, "Ok")
        ELSE St(red.val, lvl, w, "Ok")

format_json(tok, lvl, w, ind, ml) ==
    LET n == Len(tok)
        red == IF n > 0 /\ is_end_array(tok[n]) THEN format_array(tok, ind, ml)
               ELSE IF n > 0 /\ is_end_object(tok[n]) THEN format_object(tok, ind, ml)
               ELSE Ok(tok)
    IN  IF ~red.ok THEN St(tok, lvl, w, red.err)
        ELSE IF Len(red.val) = 1 /\ IsSome(as_data(red.val[1]))
             THEN St(<<>>, lvl, w \o red.val[1].data, "Ok")
        ELSE St(red.val, lvl, w, "Ok")

(* write_func!: the scalar writers (write_null, write_bool, write_i8 ...
   write_number_str, write_byte_array, write_raw_fragment); vec is what
   CompactFormatter writes for the value *)
write_func(tok, lvl, w, ind, ml, vec) ==
    format_json(Append(tok, Data(vec)), lvl, w, ind, ml)

(* begin_string that writes the opening quote to the writer at once *)
begin_string_Writes(tok, lvl, w) ==
    St(Append(tok, Data(<<dq>>)), lvl, w \o <<dq>>, "Ok")

begin_string(tok, lvl, w) == St(Append(tok, Data(<<dq>>)), lvl, w, "Ok")

(* extend_last that starts a new Data token when the queue is empty *)
extend_last_PushWhenEmpty(tok, bytes) ==
    IF tok = <<>> THEN Ok(<<Data(bytes)>>)
    ELSE IF ~IsSome(as_data(tok[Len(tok)])) THEN Err("UnexpectedEvent")
    ELSE Ok([tok EXCEPT ![Len(tok)].data = @ \o bytes])

(* token.last_mut().ok_or(EmptyTokenQueue)?.as_data_mut_err()?
   .extend_from_slice(bytes) *)
extend_last(tok, bytes) ==
    IF tok = <<>> THEN Err("EmptyTokenQueue")
    ELSE IF ~IsSome(as_data(tok[Len(tok)])) THEN Err("UnexpectedEvent")
    ELSE Ok([tok EXCEPT ![Len(tok)].data = @ \o bytes])

end_string(tok, lvl, w, ind, ml) ==
    LET ext == extend_last(tok, <<dq>>)
    IN  IF ~ext.ok THEN St(tok, lvl, w, ext.err)
        ELSE format_json(ext.val, lvl, w, ind, ml)

(* write_string_fragment that overwrites the buffer with the fragment *)
write_string_fragment_Overwrites(tok, lvl, w, fragment) ==
    IF tok = <<>> THEN St(tok, lvl, w, "EmptyTokenQueue")
    ELSE IF ~IsSome(as_data(tok[Len(tok)])) THEN St(tok, lvl, w, "UnexpectedEvent")
    ELSE St([tok EXCEPT ![Len(tok)].data = fragment], lvl, w, "Ok")

write_string_fragment(tok, lvl, w, fragment) ==
    LET ext == extend_last(tok, fragment)
    IN  IF ~ext.ok THEN St(tok, lvl, w, ext.err) ELSE St(ext.val, lvl, w, "Ok")

write_char_escape(tok, lvl, w, escape) ==
    LET ext == extend_last(tok, escape)
    IN  IF ~ext.ok THEN St(tok, lvl, w, ext.err) ELSE St(ext.val, lvl, w, "Ok")

(* level is a u32.  The model checker's integers are 32-bit signed, so the
   value 0xFFFFFFFF that "level -= 1" wraps to at 0 (overflow checks off)
   is written as its two's complement, -1. *)
u32_dec(n) == IF n = 0 THEN -1 ELSE n - 1
u32_inc(n) == n + 1

(* begin_array that leaves the level as it is *)
begin_array_NoInc(tok, lvl, w) == St(Append(tok, BeginArray(lvl)), lvl, w, "Ok")

begin_array(tok, lvl, w) ==
    St(Append(tok, BeginArray(lvl)), u32_inc(lvl), w, "Ok")

(* end_array that leaves the level as it is *)
end_array_NoDec(tok, lvl, w, ind, ml) ==
    format_json(Append(tok, EndArray), lvl, w, ind, ml)

end_array(tok, lvl, w, ind, ml) ==
    format_json(Append(tok, EndArray), u32_dec(lvl), w, ind, ml)

begin_object(tok, lvl, w) ==
    St(Append(tok, BeginObject(lvl)), u32_inc(lvl), w, "Ok")

end_object(tok, lvl, w, ind, ml) ==
    format_json(Append(tok, EndObject), u32_dec(lvl), w, ind, ml)

(* end_array / end_object built with overflow checks (the debug profile):
   "self.level -= 1" at level 0 panics after the end marker is pushed *)
end_array_checked(tok, lvl, w, ind, ml) ==
    IF lvl = 0 THEN St(Append(tok, EndArray), lvl, w, "Panic")
    ELSE end_array(tok, lvl, w, ind, ml)

end_object_checked(tok, lvl, w, ind, ml) ==
    IF lvl = 0 THEN St(Append(tok, EndObject), lvl, w, "Panic")
    ELSE end_object(tok, lvl, w, ind, ml)

----------------------------------------------------------------------------
(* The caller: serde_json's Serializer walking a Value.  ctx is the stack
   of the compounds and the string it is inside of:
     k = "A": an array with n finished elements
     k = "O": an object with n finished pairs; v: the key is written and
              the value is due
     k = "S": a string with n fragments written; v: it is an object key
   canon is what CompactFormatter writes for the same calls, i.e. the
   value in compact JSON.  begin_array_value, end_array_value,
   begin_object_key, end_object_key, begin_object_value and
   end_object_value change nothing in PrettyCompactFormatter; the steps
   below include them, and canon gets CompactFormatter's "," and ":" . *)

MaxFragments == 2

Scalars == {<<"1">>}
Fragments == {<<"a">>}
Escapes == {<<"\\", "n">>}

Frame(k, n, v) == [k |-> k, n |-> n, v |-> v]
Top(c) == c[Len(c)]
Pop(c) == SubSeq(c, 1, Len(c) - 1)

CanStartValue(c) ==
    IF c = <<>> THEN TRUE
    ELSE IF Top(c).k = "A" THEN TRUE
    ELSE Top(c).k = "O" /\ Top(c).v
CanStartKey(c) == IF c = <<>> THEN FALSE ELSE Top(c).k = "O" /\ ~Top(c).v
InString(c) == IF c = <<>> THEN FALSE ELSE Top(c).k = "S"

(* What CompactFormatter writes before a key or value starts *)
Separator(c) ==
    IF c = <<>> THEN <<>>
    ELSE IF Top(c).k = "O" /\ Top(c).v THEN <<":">>
    ELSE IF Top(c).n > 0 THEN <<",">>
    ELSE <<>>

(* The context after a key or a value has ended inside of c *)
Finished(c, isKey) ==
    IF c = <<>> THEN c
    ELSE IF isKey THEN [c EXCEPT ![Len(c)].v = TRUE]
    ELSE [c EXCEPT ![Len(c)].n = @ + 1, ![Len(c)].v = FALSE]

(* The serializer's position after the call *)
Walk(c) ==
    /\ ctx' = c
    /\ docs' = IF c = <<>> THEN docs + 1 ELSE docs

(* The formatter's state after a call *)
Becomes(s) ==
    /\ token' = s.token
    /\ level' = s.level
    /\ out' = s.out
    /\ err' = s.err
    /\ aborted' = IF s.err # "Ok" /\ s.token # <<>> THEN TRUE ELSE aborted

(* A formatter as new() / no_rules() construct it (the options are those
   of the formatter under test), with an empty writer of its own; base is
   what the writer under test held at that moment *)
FreshFormatter(base) ==
    [token |-> <<>>, level |-> 0, out |-> <<>>, base |-> base]

(* The formatter the call is compared with: a new one when the call starts
   a top-level value *)
FreshBefore == IF ctx = <<>> THEN FreshFormatter(out) ELSE fresh

FreshBecomes(s) ==
    fresh' = [token |-> s.token, level |-> s.level, out |-> s.out,
              base |-> FreshBefore.base]

Call ==
    /\ unit = "fmt"
    /\ nEvents < MaxEvents
    /\ nEvents' = nEvents + 1
    /\ UNCHANGED <<unit, indent, max_len, tokenVars>>

----------------------------------------------------------------------------
(* Construction and configuration *)

new == [indent |-> DEFAULT_INDENT, max_len |-> DEFAULT_MAX_LEN]
no_rules == [indent |-> DEFAULT_INDENT, max_len |-> None]

(* with_indent written as Self { indent, ..Self::new() } *)
WithIndent_FromNew(n) ==
    /\ unit = "fmt" /\ nEvents = 0
    /\ indent' = n
    /\ max_len' = DEFAULT_MAX_LEN
    /\ UNCHANGED <<unit, fmtVars, tokenVars>>

WithIndent(n) ==
    /\ unit = "fmt" /\ nEvents = 0
    /\ indent' = n
    /\ UNCHANGED <<unit, max_len, fmtVars, tokenVars>>

WithMaxLineLength(len) ==
    /\ unit = "fmt" /\ nEvents = 0
    /\ max_len' = Some(len)
    /\ UNCHANGED <<unit, indent, fmtVars, tokenVars>>

(* The Formatter calls *)

WriteScalar(vec) ==
    /\ Call
    /\ CanStartValue(ctx)
    /\ Becomes(write_func(token, level, out, indent, max_len, vec))
    /\ FreshBecomes(write_func(FreshBefore.token, FreshBefore.level,
                     FreshBefore.out, indent, max_len, vec))
    /\ canon' = canon \o Separator(ctx) \o vec
    /\ Walk(Finished(ctx, FALSE))

BeginString ==
    /\ Call
    /\ IF CanStartValue(ctx) THEN TRUE ELSE CanStartKey(ctx)
    /\ Becomes(begin_string(token, level, out))
    /\ FreshBecomes(begin_string(FreshBefore.token, FreshBefore.level,
                     FreshBefore.out))
    /\ canon' = canon \o Separator(ctx) \o <<dq>>
    /\ Walk(Append(ctx, Frame("S", 0, CanStartKey(ctx))))

WriteStringFragment(fragment) ==
    /\ Call
    /\ InString(ctx) /\ Top(ctx).n < MaxFragments
    /\ Becomes(write_string_fragment(token, level, out, fragment))
    /\ FreshBecomes(write_string_fragment(FreshBefore.token, FreshBefore.level,
                     FreshBefore.out, fragment))
    /\ canon' = canon \o fragment
    /\ Walk([ctx EXCEPT ![Len(ctx)].n = @ + 1])

WriteCharEscape(escape) ==
    /\ Call
    /\ InString(ctx) /\ Top(ctx).n < MaxFragments
    /\ Becomes(write_char_escape(token, level, out, escape))
    /\ FreshBecomes(write_char_escape(FreshBefore.token, FreshBefore.level,
                     FreshBefore.out, escape))
    /\ canon' = canon \o escape
    /\ Walk([ctx EXCEPT ![Len(ctx)].n = @ + 1])

EndString ==
    /\ Call
    /\ InString(ctx)
    /\ Becomes(end_string(token, level, out, indent, max_len))
    /\ FreshBecomes(end_string(FreshBefore.token, FreshBefore.level,
                     FreshBefore.out, indent, max_len))
    /\ canon' = canon \o <<dq>>
    /\ Walk(Finished(Pop(ctx), Top(ctx).v))

BeginArray_ ==
    /\ Call
    /\ CanStartValue(ctx)
    /\ Becomes(begin_array(token, level, out))
    /\ FreshBecomes(begin_array(FreshBefore.token, FreshBefore.level,
                     FreshBefore.out))
    /\ canon' = canon \o Separator(ctx) \o <<"[">>
    /\ Walk(Append(ctx, Frame("A", 0, FALSE)))

EndArray_ ==
    /\ Call
    /\ IF ctx = <<>> THEN FALSE ELSE Top(ctx).k = "A"
    /\ Becomes(end_array(token, level, out, indent, max_len))
    /\ FreshBecomes(end_array(FreshBefore.token, FreshBefore.level,
                     FreshBefore.out, indent, max_len))
    /\ canon' = canon \o <<"]">>
    /\ Walk(Finished(Pop(ctx), FALSE))

BeginObject_ ==
    /\ Call
    /\ CanStartValue(ctx)
    /\ Becomes(begin_object(token, level, out))
    /\ FreshBecomes(begin_object(FreshBefore.token, FreshBefore.level,
                     FreshBefore.out))
    /\ canon' = canon \o Separator(ctx) \o <<"{">>
    /\ Walk(Append(ctx, Frame("O", 0, FALSE)))

EndObject_ ==
    /\ Call
    /\ CanStartKey(ctx)
    /\ Becomes(end_object(token, level, out, indent, max_len))
    /\ FreshBecomes(end_object(FreshBefore.token, FreshBefore.level,
                     FreshBefore.out, indent, max_len))
    /\ canon' = canon \o <<"}">>
    /\ Walk(Finished(Pop(ctx), FALSE))

InitFmt ==
    /\ unit = "fmt"
    /\ \E f \in {new, no_rules} : indent = f.indent /\ max_len = f.max_len
    /\ token = <<>>
    /\ level = 0
    /\ out = <<>>
    /\ err = "Ok"
    /\ ctx = <<>>
    /\ canon = <<>>
    /\ nEvents = 0
    /\ docs = 0
    /\ aborted = FALSE
    /\ fresh = FreshFormatter(<<>>)
    /\ tree = Data(<<>>)
    /\ tpc = "idle"
    /\ tres = <<>>

NextFmt ==
    \/ \E n \in Indents : WithIndent(n)
    \/ \E len \in MaxLens : WithMaxLineLength(len)
    \/ \E vec \in Scalars : WriteScalar(vec)
    \/ BeginString
    \/ \E fragment \in Fragments : WriteStringFragment(fragment)
    \/ \E escape \in Escapes : WriteCharEscape(escape)
    \/ EndString
    \/ BeginArray_
    \/ EndArray_
    \/ BeginObject_
    \/ EndObject_

----------------------------------------------------------------------------
(* Unit "token": a Token tree as the formatter's reduction builds it (the
   level of a node is its depth, an Object holds key/value pairs with Data
   keys), Options, and the methods of Token applied to them *)

Leaves == {Data(<<>>), Data(<<"1">>)}
Keys == {Data(<<dq, "a", dq>>)}

RECURSIVE Trees(_, _)
RECURSIVE Forests(_, _)
RECURSIVE PairForests(_, _)

(* The trees of exactly n nodes whose root is at level l *)
Trees(n, l) ==
    IF n = 1 THEN Leaves \cup {Array(l, <<>>), Object(l, <<>>)}
    ELSE {Array(l, f) : f \in Forests(n - 1, l + 1)}
         \cup {Object(l, f) : f \in PairForests(n - 1, l + 1)}

(* The non-empty sequences of trees at level l with n nodes in all *)
Forests(n, l) ==
    UNION {{<<t>> \o f : t \in Trees(k, l),
                        f \in IF k = n THEN {<<>>} ELSE Forests(n - k, l)}
           : k \in 1..n}

(* The non-empty sequences of key/value pairs with n nodes in all *)
PairForests(n, l) ==
    UNION {{<<key, t>> \o f : key \in Keys, t \in Trees(k, l),
                             f \in IF k + 1 = n THEN {<<>>}
                                   ELSE PairForests(n - k - 1, l)}
           : k \in 1..(n - 1)}

TokenTrees == UNION {Trees(n, 0) : n \in 1..MaxNodes}

(* The columns handed to can_compact as forced_indent *)
Columns == {0, 3, 5}

(* The values handed to Options::set_indent / set_max_len: those of the
   formatter, and an indentation wider than a key with its ": " *)
OptionIndents == Indents \cup {10}
OptionMaxLens == MaxLens \cup {13}

SetIndent(n) ==
    /\ unit = "token" /\ tpc = "ready"
    /\ indent' = n
    /\ UNCHANGED <<unit, max_len, fmtVars, tokenVars>>

SetMaxLen(len) ==
    /\ unit = "token" /\ tpc = "ready"
    /\ max_len' = Some(len)
    /\ UNCHANGED <<unit, indent, fmtVars, tokenVars>>

TokenLength ==
    /\ unit = "token" /\ tpc = "ready"
    /\ tpc' = "length"
    /\ tres' = [arg |-> None, ret |-> length(tree)]
    /\ UNCHANGED <<unit, indent, max_len, fmtVars, tree>>

TokenCanCompact(forced_indent) ==
    /\ unit = "token" /\ tpc = "ready"
    /\ tpc' = "can_compact"
    /\ tres' = [arg |-> forced_indent,
                ret |-> can_compact(tree, indent, max_len, forced_indent)]
    /\ UNCHANGED <<unit, indent, max_len, fmtVars, tree>>

TokenFormat(forced_compact) ==
    /\ unit = "token" /\ tpc = "ready"
    /\ tpc' = "format"
    /\ tres' = [arg |-> forced_compact,
                ret |-> format(tree, indent, max_len, forced_compact)]
    /\ UNCHANGED <<unit, indent, max_len, fmtVars, tree>>

Options_default == [indent |-> DEFAULT_INDENT, max_len |-> DEFAULT_MAX_LEN]
Options_no_rules == [indent |-> DEFAULT_INDENT, max_len |-> None]

InitToken ==
    /\ unit = "token"
    /\ \E o \in {Options_default, Options_no_rules} :
          indent = o.indent /\ max_len = o.max_len
    /\ tree \in TokenTrees
    /\ tpc = "ready"
    /\ tres = [arg |-> None, ret |-> 0]
    /\ token = <<>>
    /\ level = 0
    /\ out = <<>>
    /\ err = "Ok"
    /\ ctx = <<>>
    /\ canon = <<>>
    /\ nEvents = 0
    /\ docs = 0
    /\ aborted = FALSE
    /\ fresh = FreshFormatter(<<>>)

NextToken ==
    \/ \E n \in OptionIndents : SetIndent(n)
    \/ \E len \in OptionMaxLens : SetMaxLen(len)
    \/ TokenLength
    \/ \E c \in Columns : TokenCanCompact(Some(c))
    \/ TokenCanCompact(None)
    \/ TokenFormat(None)

Init == InitFmt \/ InitToken
Next == NextFmt \/ NextToken
Spec == Init /\ [][Next]_vars

----------------------------------------------------------------------------
(* The formatter of new() (indent 2, max_len 120) fed values that hold a
   long number, so that a line reaches the default maximum length *)

WideLen == 103
Wide == [i \in 1..WideLen |-> "1"]

InitWide ==
    /\ InitFmt
    /\ indent = new.indent /\ max_len = new.max_len

NextWide ==
    \/ \E vec \in Scalars \cup {Wide} : WriteScalar(vec)
    \/ BeginString
    \/ EndString
    \/ BeginArray_
    \/ EndArray_
    \/ BeginObject_
    \/ EndObject_

SpecWide == InitWide /\ [][NextWide]_vars

----------------------------------------------------------------------------
(* Unit "any": a caller that makes the Formatter calls in any order, as the
   public Formatter methods allow.  The build is either with or without
   overflow checks.  Calls stop after a panic, and are not followed once
   level has wrapped (an indentation of 2^32 - 1 levels). *)

MaxCalls == 5

AnyCall ==
    /\ unit = "any"
    /\ nEvents < MaxCalls
    /\ err # "Panic"
    /\ level >= 0
    /\ nEvents' = nEvents + 1
    /\ UNCHANGED <<unit, indent, max_len, ctx, canon, docs, fresh, tokenVars>>

AnyWriteScalar(vec) ==
    AnyCall /\ Becomes(write_func(token, level, out, indent, max_len, vec))

AnyBeginString == AnyCall /\ Becomes(begin_string(token, level, out))

AnyWriteStringFragment(fragment) ==
    AnyCall /\ Becomes(write_string_fragment(token, level, out, fragment))

AnyWriteCharEscape(escape) ==
    AnyCall /\ Becomes(write_char_escape(token, level, out, escape))

AnyEndString ==
    AnyCall /\ Becomes(end_string(token, level, out, indent, max_len))

AnyBeginArray == AnyCall /\ Becomes(begin_array(token, level, out))

AnyEndArray(overflow_checks) ==
    /\ AnyCall
    /\ Becomes(IF overflow_checks
               THEN end_array_checked(token, level, out, indent, max_len)
               ELSE end_array(token, level, out, indent, max_len))

AnyBeginObject == AnyCall /\ Becomes(begin_object(token, level, out))

AnyEndObject(overflow_checks) ==
    /\ AnyCall
    /\ Becomes(IF overflow_checks
               THEN end_object_checked(token, level, out, indent, max_len)
               ELSE end_object(token, level, out, indent, max_len))

InitAny ==
    /\ unit = "any"
    /\ \E f \in {new, no_rules} : indent = f.indent /\ max_len = f.max_len
    /\ token = <<>>
    /\ level = 0
    /\ out = <<>>
    /\ err = "Ok"
    /\ ctx = <<>>
    /\ canon = <<>>
    /\ nEvents = 0
    /\ docs = 0
    /\ aborted = FALSE
    /\ fresh = FreshFormatter(<<>>)
    /\ tree = Data(<<>>)
    /\ tpc = "idle"
    /\ tres = <<>>

NextAny ==
    \/ \E vec \in Scalars : AnyWriteScalar(vec)
    \/ AnyBeginString
    \/ \E fragment \in Fragments : AnyWriteStringFragment(fragment)
    \/ \E escape \in Escapes : AnyWriteCharEscape(escape)
    \/ AnyEndString
    \/ AnyBeginArray
    \/ \E overflow_checks \in BOOLEAN : AnyEndArray(overflow_checks)
    \/ AnyBeginObject
    \/ \E overflow_checks \in BOOLEAN : AnyEndObject(overflow_checks)

SpecAny == InitAny /\ [][NextAny]_vars

----------------------------------------------------------------------------
(* Vocabulary of the properties *)

Has(bytes, c) == \E i \in 1..Len(bytes) : bytes[i] = c

(* The bytes without layout whitespace.  No scalar and no string of the
   model holds a space or a newline. *)
Strip(bytes) == SelectSeq(bytes, LAMBDA c : c \notin {sp, nl})

RECURSIVE SpreadFrom(_, _, _)
SpreadFrom(bytes, lo, hi) ==
    IF lo > hi THEN <<>>
    ELSE IF lo = hi
    THEN (CASE bytes[lo] \in {"[", "{"} -> <<bytes[lo], sp>>
            [] bytes[lo] \in {"]", "}"} ->
                 IF bytes[lo - 1] \in {"[", "{"} THEN <<bytes[lo]>>
                 ELSE <<sp, bytes[lo]>>
            [] bytes[lo] \in {",", ":"} -> <<bytes[lo], sp>>
            [] OTHER -> <<bytes[lo]>>)
    ELSE LET mid == (lo + hi) \div 2
         IN  SpreadFrom(bytes, lo, mid) \o SpreadFrom(bytes, mid + 1, hi)

(* Compact JSON laid out on one line: "[ " and " ]" around the children of
   a compound, "[ ]" for an empty one, ", " between siblings, ": " after a
   key *)
Spread(bytes) == SpreadFrom(bytes, 1, Len(bytes))

RECURSIVE Canon(_)
RECURSIVE CanonItems(_, _)
CanonItems(ts, isObject) ==
    IF ts = <<>> THEN <<>>
    ELSE IF isObject
         THEN Canon(ts[1]) \o <<":">> \o Canon(ts[2])
              \o (IF Len(ts) > 2 THEN <<",">> ELSE <<>>)
              \o CanonItems(SubSeq(ts, 3, Len(ts)), TRUE)
         ELSE Canon(ts[1]) \o (IF Len(ts) > 1 THEN <<",">> ELSE <<>>)
              \o CanonItems(Tail(ts), FALSE)

(* The compact JSON of a Token tree *)
Canon(t) ==
    CASE t.kind = "Data" -> t.data
      [] t.kind = "Array" -> <<"[">> \o CanonItems(t.token, FALSE) \o <<"]">>
      [] t.kind = "Object" -> <<"{">> \o CanonItems(t.token, TRUE) \o <<"}">>
      [] OTHER -> <<>>

Openers == {"[", "{"}
Closers == {"]", "}"}
SetMin(S) == CHOOSE x \in S : \A y \in S : x <= y

(* The first byte after (last byte before) position i that is not layout
   whitespace; "" if there is none *)
NextNonWs(bytes, i) ==
    LET js == {j \in (i + 1)..Len(bytes) : bytes[j] \notin {sp, nl}}
    IN  IF js = {} THEN "" ELSE bytes[SetMin(js)]
PrevNonWs(bytes, i) ==
    LET js == {j \in 1..(i - 1) : bytes[j] \notin {sp, nl}}
    IN  IF js = {} THEN "" ELSE bytes[SetMax(js)]

(* Position i is the first byte of its line that is not a space, and the
   line is not the first one *)
StartsItsLine(bytes, i) ==
    \E s \in 1..(i - 1) :
        bytes[s] = nl /\ \A j \in (s + 1)..(i - 1) : bytes[j] = sp

(* The length of the line that holds position i *)
LineLen(bytes, i) ==
    LET before == {j \in 1..(i - 1) : bytes[j] = nl}
        after == {j \in (i + 1)..Len(bytes) : bytes[j] = nl}
        first == IF before = {} THEN 1 ELSE SetMax(before) + 1
        last == IF after = {} THEN Len(bytes) ELSE SetMin(after) - 1
    IN  last - first + 1

(* Every non-empty compound in bytes is laid out expanded: its opening
   delimiter ends a line, every "," ends a line, so no two siblings share
   a line, and its closing delimiter starts a line *)
ExpandedLayout(bytes) ==
    \A i \in 1..Len(bytes) :
        /\ bytes[i] = "," => i < Len(bytes) /\ bytes[i + 1] = nl
        /\ (bytes[i] \in Openers /\ NextNonWs(bytes, i) \notin Closers)
              => bytes[i + 1] = nl
        /\ (bytes[i] \in Closers /\ PrevNonWs(bytes, i) \notin Openers)
              => StartsItsLine(bytes, i)

(* Every empty compound in bytes is written "[ ]" or "{ }" *)
EmptyCompact(bytes) ==
    \A i \in 1..Len(bytes) :
        (bytes[i] \in Openers /\ NextNonWs(bytes, i) \in Closers)
            => bytes[i + 1] = sp /\ bytes[i + 2] \in Closers

(* Every line of bytes that holds a compact compound ("[ " or "{ ") is at
   most max characters long *)
CompactLinesWithin(bytes, max) ==
    \A i \in 1..(Len(bytes) - 1) :
        (bytes[i] \in Openers /\ bytes[i + 1] = sp) => LineLen(bytes, i) <= max

RECURSIVE ZeroFree(_)
(* No Data leaf of the tree is empty *)
ZeroFree(t) ==
    IF t.kind = "Data" THEN t.data # <<>>
    ELSE \A i \in 1..Len(t.token) : ZeroFree(t.token[i])

RECURSIVE RenderedWidth(_)
RECURSIVE SumWidth(_)
SumWidth(ts) ==
    IF ts = <<>> THEN 0 ELSE RenderedWidth(Head(ts)) + SumWidth(Tail(ts))

(* renderedWidth: the bytes of the token rendered fully compact.  Data: its
   length.  N children: 3 if N = 0; an Array 4 + sum + 2(N-1); an Object
   4 + sum + 2(N/2) + 2(N/2 - 1). *)
RenderedWidth(t) ==
    LET N == Len(t.token)
    IN  CASE t.kind = "Data" -> Len(t.data)
          [] t.kind = "Array" ->
               IF N = 0 THEN 3 ELSE 4 + SumWidth(t.token) + 2 * (N - 1)
          [] t.kind = "Object" ->
               IF N = 0 THEN 3
               ELSE 4 + SumWidth(t.token) + 2 * (N \div 2)
                    + 2 * ((N \div 2) - 1)
          [] OTHER -> 0

IsCompound(t) == t.kind \in {"Array", "Object"}

(* The serializer is between top-level values *)
Idle == unit = "fmt" /\ ctx = <<>>

(* canon is one array (object) of at least one scalar or string *)
FlatDoc(open, close) ==
    /\ docs = 1
    /\ Len(canon) > 2
    /\ canon[1] = open
    /\ canon[Len(canon)] = close
    /\ \A i \in 2..(Len(canon) - 1) : canon[i] \notin {"[", "]", "{", "}"}

----------------------------------------------------------------------------
(* C1: round trip.  When the serializer has finished its top-level values,
   the bytes in the writer, without the layout whitespace, are the compact
   JSON of the values it walked: the same nesting, the same scalar bytes,
   the same order.  Likewise Token::format writes, up to whitespace, the
   compact JSON of the tree, and does not fail. *)
C1_RoundTrip ==
    /\ Idle => err = "Ok" /\ token = <<>> /\ Strip(out) = canon
    /\ tpc = "format" =>
          tres.ret.err = "Ok" /\ Strip(tres.ret.out) = Canon(tree)

C1_Witness ==
    /\ Idle /\ docs = 1 /\ nEvents >= 6
    /\ canon[1] = "{" /\ Has(canon, "[")
    /\ Has(out, nl)

(* C2: a scalar written while the token queue is empty goes to the writer
   unchanged within that call, and the queue is empty again after it. *)
C2_TopLevelScalar ==
    [][\A vec \in Scalars :
          WriteScalar(vec) /\ token = <<>> =>
              out' = out \o vec /\ token' = <<>> /\ err' = "Ok"]_vars

C2_Witness ==
    Idle /\ nEvents = 1 /\ docs = 1 /\ out = <<"1">> /\ token = <<>>

(* C3: with indent 2 and max_len 120 a root array of scalars, and a root
   object of scalar pairs, whose compact width is below 120 is written on
   one line: "[ " children joined by ", " " ]", and
   "{ " key ": " value joined by ", " " }". *)
C3_RootCompactOneLine ==
    (/\ Idle
     /\ indent = 2 /\ max_len = Some(120)
     /\ FlatDoc("[", "]") \/ FlatDoc("{", "}")
     /\ Len(Spread(canon)) < 120)
    => out = Spread(canon)

C3_Witness ==
    /\ Idle /\ indent = 2 /\ max_len = Some(120) /\ FlatDoc("{", "}")
    /\ out = <<"{", sp, dq, dq, ":", sp, "1", ",", sp,
               dq, dq, ":", sp, "1", sp, "}">>

(* C4: an empty array is always written "[ ]" and an empty object "{ }",
   for every indent, every max_len (unset, or below indentation + 3) and
   every depth; never in the expanded form. *)
C4_EmptyAlwaysCompact ==
    /\ Idle => EmptyCompact(out)
    /\ (tpc = "format" /\ ZeroFree(tree)) => EmptyCompact(tres.ret.out)

(* C5: with max_len unset every non-empty array and object, at every depth,
   is written expanded: each child starts on a line of its own and no two
   siblings share a line. *)
C5_NoRulesExpanded ==
    /\ (Idle /\ max_len = None) => ExpandedLayout(out)
    /\ (tpc = "format" /\ max_len = None) => ExpandedLayout(tres.ret.out)

C5_Witness ==
    /\ Idle /\ max_len = None /\ docs = 1 /\ indent = 2
    /\ Has(canon, ",") /\ Has(canon, ":") /\ Has(canon, "[")

(* C6: the reduction on end_array / end_object compares strictly: a
   compound whose level * indent + compact width equals max_len is over
   budget and is written expanded.  (Stated for the root, level 0.) *)
C6_StrictAtBudget ==
    (/\ Idle
     /\ IsSome(max_len)
     /\ FlatDoc("[", "]") \/ FlatDoc("{", "}")
     /\ Len(Spread(canon)) = Unwrap(max_len))
    => Has(out, nl)

(* C7: can_compact of an Array or Object is false when max_len is unset,
   and otherwise true exactly when (forced_indent if given, else
   level * indent) + renderedWidth < max_len. *)
C7_CanCompactRule ==
    (tpc = "can_compact" /\ IsCompound(tree)) =>
        tres.ret =
            (/\ IsSome(max_len)
             /\ (IF IsSome(tres.arg) THEN Unwrap(tres.arg)
                 ELSE tree.level * indent) + RenderedWidth(tree)
                < Unwrap(max_len))

(* C8: length() is the number of bytes format writes when every compound
   of the tree is rendered compact. *)
C8_LengthIsCompactWidth ==
    (/\ tpc = "format"
     /\ max_len = DEFAULT_MAX_LEN
     /\ ~Has(tres.ret.out, nl))
    => Len(tres.ret.out) = length(tree)

(* C9: width bound.  A compound rendered compact by its own decision has
   level * indent + (the bytes of its compact rendering) < max_len.
   (Stated for the root, level 0, rendered on one line.) *)
C9_WidthBound ==
    /\ (/\ Idle /\ docs = 1 /\ IsSome(max_len)
        /\ canon[1] \in Openers /\ ~Has(out, nl))
       => Len(out) < Unwrap(max_len)
    /\ (/\ tpc = "format" /\ IsSome(max_len)
        /\ IsCompound(tree) /\ ~Has(tres.ret.out, nl))
       => Len(tres.ret.out) < Unwrap(max_len)

(* C10: a line that holds a compound written on one line is within the
   limit: indentation, a key and ": " before it, the compound, and a
   trailing "," are together at most max_len characters. *)
C10_LineWithinLimit ==
    /\ (Idle /\ docs = 1 /\ IsSome(max_len))
       => CompactLinesWithin(out, Unwrap(max_len))
    /\ (tpc = "format" /\ IsSome(max_len))
       => CompactLinesWithin(tres.ret.out, Unwrap(max_len))

----------------------------------------------------------------------------
(* The pairs of an Object laid out as the key-fit rule states it: the value
   of a pair is rendered with forced_compact = Some(b), b being the key-fit
   test can_compact(value, Some(column after "key: ")) *)
RECURSIVE KeyFitItems(_, _, _, _, _, _, _)
KeyFitItems(ts, first, compact, cur_indent, spaces_next, ind, ml) ==
    IF Len(ts) < 2 THEN <<>>
    ELSE LET key == ts[1].data
             col == KeyColumn(cur_indent, first, compact, spaces_next, key)
             fit == can_compact(ts[2], ind, ml, Some(col))
         IN  (IF first THEN <<>>
              ELSE IF compact THEN <<",", sp>> ELSE <<",", nl>>)
             \o (IF compact THEN <<>> ELSE Spaces(spaces_next))
             \o key \o <<":", sp>>
             \o format(ts[2], ind, ml, Some(fit)).out
             \o KeyFitItems(SubSeq(ts, 3, Len(ts)), FALSE, compact, col,
                            spaces_next, ind, ml)

KeyFitObject(t, ind, ml) ==
    LET compact == can_compact(t, ind, ml, None)
    IN  (IF compact THEN <<"{", sp>> ELSE <<"{", nl>>)
        \o KeyFitItems(t.token, TRUE, compact,
                       IF compact THEN 2 ELSE t.level * ind,
                       (t.level + 1) * ind, ind, ml)
        \o Closing("}", Len(t.token) < 2, compact, t.level * ind)

(* C11: key-fit heuristic.  Token::format of an Object writes every value
   with the layout its key-fit test forces: compact on the key's line when
   can_compact(value, Some(column after "key: ")) holds, even if the
   value's own test at level * indent fails, and expanded when it does not
   hold; the value's own default decision is never used. *)
C11_KeyFitForces ==
    (tpc = "format" /\ tree.kind = "Object")
        => tres.ret.out = KeyFitObject(tree, indent, max_len)

----------------------------------------------------------------------------
(* The queue holds a begin marker the predicate accepts *)
HasMarker(tok, predicate) == IsSome(find_last_token(tok, predicate))

(* C12: unmatched end.  end_array() called while the queue holds no
   BeginArray marker (a fresh formatter included) returns NoArrayStart to
   the caller and writes nothing to the writer; end_object() without a
   BeginObject marker likewise returns NoObjectStart. *)
C12_UnmatchedEnd ==
    [][\A overflow_checks \in BOOLEAN :
         /\ (AnyEndArray(overflow_checks)
                /\ ~HasMarker(token, "as_begin_array"))
              => (err' = "NoArrayStart" /\ out' = out)
         /\ (AnyEndObject(overflow_checks)
                /\ ~HasMarker(token, "as_begin_object"))
              => (err' = "NoObjectStart" /\ out' = out)]_vars

(* The kind of the innermost begin marker left in the queue, "" if none *)
InnermostBegin(tok) ==
    LET ms == {i \in 1..Len(tok) : tok[i].kind \in {"BeginArray", "BeginObject"}}
    IN  IF ms = {} THEN "" ELSE tok[SetMax(ms)].kind

UnmatchedEndErrors == {"NoArrayStart", "NoObjectStart"}

(* C13: wrong-kind end.  end_array() called while the innermost begin
   marker in the queue is a BeginObject (end_object() while it is a
   BeginArray) fails with an error that is not the unmatched-end error,
   whether or not an outer marker of the requested kind exists; nothing is
   reduced and nothing is written. *)
C13_WrongKindEnd ==
    [][\A overflow_checks \in BOOLEAN :
         /\ (AnyEndArray(overflow_checks)
                /\ InnermostBegin(token) = "BeginObject")
              => /\ err' \notin {"Ok", "Panic"} \cup UnmatchedEndErrors
                 /\ out' = out
                 /\ token' = Append(token, EndArray)
         /\ (AnyEndObject(overflow_checks)
                /\ InnermostBegin(token) = "BeginArray")
              => /\ err' \notin {"Ok", "Panic"} \cup UnmatchedEndErrors
                 /\ out' = out
                 /\ token' = Append(token, EndObject)]_vars

(* C14: empty working set.  write_string_fragment(), write_char_escape()
   and end_string() called while the queue is empty fail with
   EmptyTokenQueue, write nothing, and leave the queue empty and the level
   unchanged. *)
C14_EmptyTokenQueue ==
    [][(/\ token = <<>>
        /\ \/ \E fragment \in Fragments : AnyWriteStringFragment(fragment)
           \/ \E escape \in Escapes : AnyWriteCharEscape(escape)
           \/ AnyEndString)
       => (/\ err' = "EmptyTokenQueue"
           /\ out' = out
           /\ token' = <<>>
           /\ level' = level)]_vars

C14_Witness ==
    /\ unit = "any"
    /\ err = "EmptyTokenQueue"
    /\ token = <<>>
    /\ out = <<"[", sp, "1", sp, "]">>

(* C15: an error aborts the top-level value.  Once a call has returned an
   error while a value is in progress (tokens are left in the queue), no
   later call writes to the writer: whatever the queue holds belongs to the
   aborted value. *)
C15_ErrorAborts == [][aborted => out' = out]_vars

(* C16: ready for the next value.  When the call that completes a
   top-level value has returned, the queue is empty and the level is 0,
   and what the writer received for that value is what a formatter
   constructed anew with the same options writes for the same calls. *)
C16_ReadyForNext ==
    (Idle /\ docs >= 1)
        => /\ token = <<>>
           /\ level = 0
           /\ fresh.token = <<>> /\ fresh.level = 0
           /\ out = fresh.base \o fresh.out

C16_Witness ==
    /\ Idle /\ docs = 2
    /\ fresh.base = <<"[", sp, "1", sp, "]">>
    /\ fresh.out = <<"{", sp, dq, dq, ":", sp, "1", sp, "}">>
    /\ max_len = DEFAULT_MAX_LEN

(* C17: configuration.  new() has indent 2 and max_len 120, no_rules() has
   indent 2 and no max_len; with_indent changes indent only and
   with_max_line_length changes max_len only (also from unset to set);
   neither touches the queue or the level; no Formatter call changes
   indent or max_len.  Options::set_indent / set_max_len likewise. *)
C17_Configuration ==
    /\ new = [indent |-> 2, max_len |-> Some(120)]
    /\ no_rules = [indent |-> 2, max_len |-> None]
    /\ Options_default = new /\ Options_no_rules = no_rules
    /\ [][/\ \A n \in Indents :
               WithIndent(n) => /\ indent' = n /\ max_len' = max_len
                                /\ token' = token /\ level' = level
          /\ \A len \in MaxLens :
               WithMaxLineLength(len)
                  => /\ max_len' = Some(len) /\ indent' = indent
                     /\ token' = token /\ level' = level
          /\ \A n \in OptionIndents :
               SetIndent(n) => indent' = n /\ max_len' = max_len
          /\ \A len \in OptionMaxLens :
               SetMaxLen(len) => max_len' = Some(len) /\ indent' = indent
          /\ Call => indent' = indent /\ max_len' = max_len]_vars

(* A formatter of no_rules() whose indent was changed has formatted a
   value expanded: max_len is still unset *)
C17_Witness ==
    /\ Idle /\ docs = 1
    /\ indent = 0 /\ max_len = None
    /\ out = <<"[", nl, "1", nl, "]">>

(* The begin markers in the queue, bottom first *)
BeginMarkers(tok) ==
    SelectSeq(tok, LAMBDA t : t.kind \in {"BeginArray", "BeginObject"})

(* C19: depth bookkeeping.  After every call of a well-formed sequence the
   level equals the number of begin markers in the queue and the i-th
   marker from the bottom (i = 0, 1, ...) carries level i; begin_array /
   begin_object push a marker carrying the current level and add one to
   the level, end_array / end_object subtract one. *)
C19_DepthBookkeeping ==
    /\ [](unit = "fmt" =>
            /\ level = Len(BeginMarkers(token))
            /\ \A i \in 1..Len(BeginMarkers(token)) :
                  BeginMarkers(token)[i].level = i - 1)
    /\ [][/\ BeginArray_ => /\ token' = Append(token, BeginArray(level))
                            /\ level' = level + 1
          /\ BeginObject_ => /\ token' = Append(token, BeginObject(level))
                             /\ level' = level + 1
          /\ EndArray_ => level' = level - 1
          /\ EndObject_ => level' = level - 1]_vars

C19_Witness ==
    /\ unit = "fmt"
    /\ level = 3
    /\ Len(token) = 5
    /\ token[1] = BeginArray(0)
    /\ token[3] = BeginObject(1)
    /\ token[5] = BeginArray(2)

(* The index of the innermost begin marker in the queue, 0 if none *)
InnermostIndex(tok) ==
    LET ms == {i \in 1..Len(tok) : tok[i].kind \in {"BeginArray", "BeginObject"}}
    IN  IF ms = {} THEN 0 ELSE SetMax(ms)

(* What the reduction at index idx produced: the Data token left at idx,
   or, for the outermost compound, what the writer received *)
Reduced(idx) ==
    IF idx = 1 THEN SubSeq(out', Len(out) + 1, Len(out'))
    ELSE token'[idx].data

(* The end call finds the innermost begin marker, which is of its kind;
   the tokens above it are reduced values, and they make up the reduced
   compound in their order *)
ScanMatches(predicate, open, close, isObject) ==
    LET found == find_last_token(token, predicate)
        idx == Unwrap(found)[1]
        above == SubSeq(token, idx + 1, Len(token))
    IN  /\ IsSome(found)
        /\ idx = InnermostIndex(token)
        /\ \A j \in 1..Len(above) : above[j].kind = "Data"
        /\ err' = "Ok"
        /\ Strip(Reduced(idx))
             = <<open>> \o Strip(CanonItems(above, isObject)) \o <<close>>

(* C20: eager reduction.  After every call of a well-formed sequence the
   queue holds no EndArray / EndObject marker, and at each end_array()
   (end_object()) the BeginArray (BeginObject) found scanning the queue
   from its top is the innermost begin marker of either kind, every token
   above it is an already reduced value, and these values form the
   compound in their original order. *)
C20_EagerReduction ==
    /\ [](unit = "fmt" =>
            \A i \in 1..Len(token) :
                token[i].kind \notin {"EndArray", "EndObject"})
    /\ [][/\ EndArray_ => ScanMatches("as_begin_array", "[", "]", FALSE)
          /\ EndObject_ => ScanMatches("as_begin_object", "{", "}", TRUE)]_vars

C20_Witness ==
    /\ unit = "fmt"
    /\ level = 1
    /\ Len(token) = 3
    /\ token[1] = BeginObject(0)
    /\ token[3] = Data(<<"[", sp, "1", sp, "]">>)

(* C21: buffered output.  In a well-formed sequence no call writes to the
   writer before the call that completes the top-level value; that call
   appends the rendering of the whole value, once and in document order:
   the writer then holds, up to layout whitespace, the compact JSON of the
   values walked so far. *)
C21_Buffered ==
    [][Call => IF ctx' = <<>>
               THEN /\ Len(out') > Len(out)
                    /\ SubSeq(out', 1, Len(out)) = out
                    /\ Strip(out') = canon'
               ELSE out' = out]_vars

(* A first value has been written whole and the tokens of a second one are
   held back in the queue *)
C21_Witness ==
    /\ unit = "fmt"
    /\ docs = 1
    /\ out = <<"[", sp, "1", sp, "]">>
    /\ Len(token) = 3
    /\ token[1] = BeginObject(0)

(* The queue with bytes appended to its last token and nothing else
   changed *)
LastExtended(tok, bytes) == [tok EXCEPT ![Len(tok)].data = @ \o bytes]

(* The string the serializer has just closed, as CompactFormatter writes
   it: the opening quote, the fragments and escapes in call order, the
   closing quote *)
ClosedString(bytes) ==
    LET quotes == {i \in 1..(Len(bytes) - 1) : bytes[i] = dq}
    IN  SubSeq(bytes, SetMax(quotes), Len(bytes))

(* C22: string assembly.  begin_string() pushes one Data token holding a
   quote; each write_string_fragment() / write_char_escape() appends its
   bytes to that token, writes nothing and changes no other token of the
   queue; end_string() leaves it as one Data token holding the quote, the
   fragments in call order and the closing quote (handed to the writer at
   once when the string is the top-level value). *)
C22_StringAssembly ==
    [][/\ BeginString => token' = Append(token, Data(<<dq>>)) /\ out' = out
       /\ \A fragment \in Fragments :
            WriteStringFragment(fragment)
               => token' = LastExtended(token, fragment) /\ out' = out
       /\ \A escape \in Escapes :
            WriteCharEscape(escape)
               => token' = LastExtended(token, escape) /\ out' = out
       /\ EndString =>
            IF Len(token) = 1
            THEN token' = <<>> /\ out' = out \o ClosedString(canon')
            ELSE /\ out' = out
                 /\ token' = SubSeq(token, 1, Len(token) - 1)
                                \o <<Data(ClosedString(canon'))>>]_vars

(* A string of a fragment and an escape closed behind a reduced array *)
C22_Witness ==
    /\ unit = "fmt"
    /\ Len(token) = 3
    /\ token[1] = BeginArray(0)
    /\ token[2] = Data(<<"[", sp, "1", sp, "]">>)
    /\ token[3] = Data(<<dq, "a", "\\", "n", dq>>)

(* The number of tokens above the innermost marker the predicate accepts *)
SpanLength(tok, predicate) ==
    Len(tok) - Unwrap(find_last_token(tok, predicate))[1]

(* C23: odd object span.  end_object() called while an odd number of
   tokens lies above the matching BeginObject marker (a key without a
   value; one token included) fails with a structural error, reduces
   nothing and writes nothing. *)
C23_OddSpanRejected ==
    [][\A overflow_checks \in BOOLEAN :
         (/\ AnyEndObject(overflow_checks)
          /\ HasMarker(token, "as_begin_object")
          /\ SpanLength(token, "as_begin_object") % 2 = 1)
         => /\ err' \notin {"Ok", "Panic"}
            /\ out' = out
            /\ token' = Append(token, EndObject)]_vars

(* What format_array and format_object write for the tokens between the
   markers when the compact layout is chosen *)
CompactArrayBytes(ts) ==
    <<"[", sp>> \o ArrayItems(DataBufs(ts), TRUE, TRUE, 0)
                \o Closing("]", ts = <<>>, TRUE, 0)

CompactObjectBytes(ts) ==
    <<"{", sp>> \o ObjectItems(DataBufs(ts), TRUE, TRUE, 0)
                \o Closing("}", ts = <<>>, TRUE, 0)

(* The tokens above the innermost marker the predicate accepts *)
Between(tok, predicate) ==
    SubSeq(tok, Unwrap(find_last_token(tok, predicate))[1] + 1, Len(tok))

C24_ArrayWidthExact ==
    [][EndArray_ =>
          array_len(Between(token, "as_begin_array"))
              = Len(CompactArrayBytes(Between(token, "as_begin_array")))]_vars

C24_ObjectWidthExact ==
    [][EndObject_ =>
          object_len(Between(token, "as_begin_object"))
              = Len(CompactObjectBytes(Between(token, "as_begin_object")))]_vars

(* C24: compact width.  The width end_array() and end_object() test against
   the budget is the exact number of bytes of the compact rendering of the
   tokens between the markers: 3 for none; "[ " values joined by ", " " ]"
   for an array; "{ " key ": " value joined by ", " " }" for an object. *)
C24_WidthExact == C24_ArrayWidthExact /\ C24_ObjectWidthExact

C24_Witness ==
    /\ unit = "fmt" /\ indent = 2 /\ max_len = Some(5)
    /\ docs = 1 /\ ctx = <<>>
    /\ out = <<"{", nl, sp, sp, dq, dq, ":", sp, "1", nl, "}">>

(* The number of compounds open at position p of bytes, p's own opening
   delimiter not counted *)
Depth(bytes, p) ==
    Cardinality({j \in 1..(p - 1) : bytes[j] \in Openers})
        - Cardinality({j \in 1..(p - 1) : bytes[j] \in Closers})

(* The position of the delimiter that closes the compound opened at i *)
MatchingCloser(bytes, i) ==
    SetMin({j \in (i + 1)..Len(bytes) :
               bytes[j] \in Closers /\ Depth(bytes, j) = Depth(bytes, i) + 1})

(* Position j ends a line, and the next line is n spaces and then a byte
   that is neither a space nor a newline *)
IndentedLineAfter(bytes, j, n) ==
    /\ j + n + 2 <= Len(bytes)
    /\ bytes[j + 1] = nl
    /\ \A k \in (j + 2)..(j + n + 1) : bytes[k] = sp
    /\ bytes[j + n + 2] \notin {sp, nl}

(* The compound opened at i, at depth L, is laid out expanded with
   indentation ind: the opener ends its line; every child starts a line of
   its own after exactly (L + 1) * ind spaces; the children are separated by
   "," at the end of a line; an object's value starts right after "key: ";
   the closer stands on a line of its own after exactly L * ind spaces *)
ExpandedAt(bytes, i, ind) ==
    LET L == Depth(bytes, i)
        c == MatchingCloser(bytes, i)
        direct == {j \in (i + 1)..(c - 1) : Depth(bytes, j) = L + 1}
        empty == \A j \in (i + 1)..(c - 1) : bytes[j] \in {sp, nl}
    IN  /\ c - L * ind - 1 > i
        /\ bytes[c - L * ind - 1] = nl
        /\ \A k \in (c - L * ind)..(c - 1) : bytes[k] = sp
        /\ IF empty THEN c - L * ind - 1 = i + 2
           ELSE /\ IndentedLineAfter(bytes, i, (L + 1) * ind)
                /\ bytes[c - L * ind - 2] \notin {sp, nl, ","}
        /\ \A j \in direct :
              /\ bytes[j] = "," => IndentedLineAfter(bytes, j, (L + 1) * ind)
              /\ bytes[j] = ":" => /\ bytes[i] = "{"
                                   /\ bytes[j + 1] = sp
                                   /\ bytes[j + 2] \notin {sp, nl}
              /\ bytes[j] = nl =>
                    \/ j = i + 1
                    \/ bytes[j - 1] = ","
                    \/ j = c - L * ind - 1

(* Every compound of bytes whose opener ends its line is laid out
   expanded *)
ExpandedNodes(bytes, ind) ==
    \A i \in 1..Len(bytes) :
        (bytes[i] \in Openers /\ bytes[i + 1] = nl) => ExpandedAt(bytes, i, ind)

(* C25: expanded layout.  An expanded array or object at depth L is written
   as its opener and a newline, each child (for an object "key: value", the
   value starting on the key's line) on a line of its own after exactly
   (L + 1) * indent spaces, the children separated by "," and a newline,
   then a newline, L * indent spaces and the closer; with indent 0 no
   indentation spaces are written. *)
C25_ExpandedLayout ==
    /\ Idle => ExpandedNodes(out, indent)
    /\ (tpc = "format" /\ ZeroFree(tree)) => ExpandedNodes(tres.ret.out, indent)

C25_Witness ==
    /\ Idle /\ indent = 2 /\ docs = 1
    /\ out = <<"{", nl, sp, sp, dq, "a", dq, ":", sp, "[", nl,
               sp, sp, sp, sp, "1", nl, sp, sp, "]", nl, "}">>

(* Every compound of bytes written compact ("[ " or "{ ") is closed on the
   line it is opened on *)
CompactOnOneLine(bytes) ==
    \A i \in 1..Len(bytes) :
        (bytes[i] \in Openers /\ bytes[i + 1] = sp)
            => \A j \in i..MatchingCloser(bytes, i) : bytes[j] # nl

C26_FormatterCompactSingleLine == Idle => CompactOnOneLine(out)

(* C26: compact subtree.  A compound written compact occupies a single
   line: no newline is written between its opener and its closer, so every
   compound below a compact one is compact too, for every indent and
   max_len. *)
C26_CompactSingleLine ==
    /\ C26_FormatterCompactSingleLine
    /\ tpc = "format" => CompactOnOneLine(tres.ret.out)

(* cur_indent when the value of the k-th pair of Object t is handed to
   can_compact, as the loop of Token::format accumulates it *)
RECURSIVE CurIndentAt(_, _, _, _)
CurIndentAt(t, k, compact, ind) ==
    KeyColumn(IF k > 1 THEN CurIndentAt(t, k - 1, compact, ind)
              ELSE IF compact THEN 2 ELSE t.level * ind,
              k = 1, compact, (t.level + 1) * ind, t.token[2 * k - 1].data)

(* What Token::format of Object t has written when the value of its k-th
   pair is about to be written *)
WrittenBeforeValue(t, k, compact, ind, ml) ==
    (IF compact THEN <<"{", sp>> ELSE <<"{", nl>>)
    \o FormatObjectItems(SubSeq(t.token, 1, 2 * (k - 1)), TRUE, compact,
                         IF compact THEN 2 ELSE t.level * ind,
                         (t.level + 1) * ind, ind, ml).out
    \o (IF k = 1 THEN <<>> ELSE IF compact THEN <<",", sp>> ELSE <<",", nl>>)
    \o (IF compact THEN <<>> ELSE Spaces((t.level + 1) * ind))
    \o t.token[2 * k - 1].data \o <<":", sp>>

(* The number of bytes on the last line of bytes *)
LastLineLen(bytes) ==
    LET nls == {j \in 1..Len(bytes) : bytes[j] = nl}
    IN  IF nls = {} THEN Len(bytes) ELSE Len(bytes) - SetMax(nls)

IsPrefix(p, bytes) ==
    Len(p) <= Len(bytes) /\ SubSeq(bytes, 1, Len(p)) = p

(* C27: key-fit column.  When Token::format of an Object is about to write
   the value of a pair, the column it hands to the value's key-fit test is
   the number of bytes already written on the current output line, in the
   compact and in the expanded layout. *)
C27_KeyFitColumn ==
    (tpc = "format" /\ tree.kind = "Object") =>
        LET compact == can_compact(tree, indent, max_len, None)
        IN  \A k \in 1..(Len(tree.token) \div 2) :
               LET written == WrittenBeforeValue(tree, k, compact, indent,
                                                 max_len)
               IN  /\ IsPrefix(written, tres.ret.out)
                   /\ CurIndentAt(tree, k, compact, indent)
                          = LastLineLen(written)

-----------------------------------------------------------------------------
(* Token trees that no well-formed event sequence builds: an Object whose
   list of children is odd, or whose key is no Data; at the root, as the
   element of an Array and as the value of a pair.  The enum Token admits
   them: Object(u32, Vec<Token>) takes any vector. *)
MalformedObjects(l) ==
    {Object(l, f) :
        f \in {<<key>> : key \in Keys}
            \cup {<<key, v, last>> : key \in Keys, v \in Leaves,
                                     last \in Keys \cup {Array(l + 1, <<>>)}}
            \cup {<<key, v>> : key \in {Array(l + 1, <<>>), BeginArray(l + 1),
                                         EndObject},
                               v \in Leaves}
            \cup {<<k1, v, key, v>> : k1 \in Keys, v \in {Data(<<"1">>)},
                                      key \in {Object(l + 1, <<>>)}}}

MalformedTrees ==
    MalformedObjects(0)
        \cup {Array(0, <<o>>) : o \in MalformedObjects(1)}
        \cup {Object(0, <<key, o>>) : key \in Keys, o \in MalformedObjects(1)}

InitMalformed ==
    /\ unit = "token"
    /\ \E o \in {Options_default, Options_no_rules} :
          indent = o.indent /\ max_len = o.max_len
    /\ tree \in MalformedTrees
    /\ tpc = "ready"
    /\ tres = [arg |-> None, ret |-> 0]
    /\ token = <<>>
    /\ level = 0
    /\ out = <<>>
    /\ err = "Ok"
    /\ ctx = <<>>
    /\ canon = <<>>
    /\ nEvents = 0
    /\ docs = 0
    /\ aborted = FALSE
    /\ fresh = FreshFormatter(<<>>)

SpecMalformed == InitMalformed /\ [][NextToken]_vars

RECURSIVE HasOddObject(_)
(* The tree holds an Object with an odd number of children *)
HasOddObject(t) ==
    \/ t.kind = "Object" /\ Len(t.token) % 2 = 1
    \/ \E i \in 1..Len(t.token) : HasOddObject(t.token[i])

RECURSIVE HasNonDataKey(_)
(* The tree holds an Object one of whose keys is no Data token *)
HasNonDataKey(t) ==
    \/ /\ t.kind = "Object"
       /\ \E k \in 1..(Len(t.token) \div 2) : t.token[2 * k - 1].kind # "Data"
    \/ \E i \in 1..Len(t.token) : HasNonDataKey(t.token[i])

C28_NonDataKeyRejected ==
    (tpc = "format" /\ HasNonDataKey(tree))
        => tres.ret.err = "UnexpectedEvent"

(* C28: malformed object.  Token::format of an Object whose list of
   children is odd, or one of whose keys is no Data token, fails with
   UnexpectedEvent; it never returns Ok having dropped or mis-paired a
   child. *)
C28_MalformedRejected ==
    /\ C28_NonDataKeyRejected
    /\ (tpc = "format" /\ HasOddObject(tree))
          => tres.ret.err = "UnexpectedEvent"

-----------------------------------------------------------------------------
C29_RejectedEndRestores ==
    [][\A overflow_checks \in BOOLEAN :
         ((AnyEndArray(overflow_checks) \/ AnyEndObject(overflow_checks))
             /\ err' \notin {"Ok", "Panic"})
         => (level' = level /\ token' = token)]_vars

(* C29: depth safety.  Whatever calls are made, in whatever order, the
   level never drops below zero and never wraps around (no call panics on
   the subtraction, no call leaves a wrapped level), and an end_array() or
   end_object() that is rejected leaves the level and the queue exactly as
   they were before the call. *)
C29_DepthSafe ==
    /\ [](unit = "any" => (level >= 0 /\ err # "Panic"))
    /\ C29_RejectedEndRestores

-----------------------------------------------------------------------------
(* Token::format as its recursion calls it one level down: on an Object of
   level 1 *)
NestedObjects ==
    UNION {{Object(1, f) : f \in PairForests(n - 1, 2)} : n \in 3..MaxNodes}

InitNested ==
    /\ unit = "token"
    /\ \E o \in {Options_default, Options_no_rules} :
          indent = o.indent /\ max_len = o.max_len
    /\ tree \in NestedObjects
    /\ tpc = "ready"
    /\ tres = [arg |-> None, ret |-> 0]
    /\ token = <<>>
    /\ level = 0
    /\ out = <<>>
    /\ err = "Ok"
    /\ ctx = <<>>
    /\ canon = <<>>
    /\ nEvents = 0
    /\ docs = 0
    /\ aborted = FALSE
    /\ fresh = FreshFormatter(<<>>)

SpecNested == InitNested /\ [][NextToken]_vars

(* What Token::format of the expanded Object t wrote, in bytes, for the
   value of its k-th pair *)
ValueBytes(t, k, bytes, ind, ml) ==
    LET n == Len(t.token) \div 2
        from == Len(WrittenBeforeValue(t, k, FALSE, ind, ml)) + 1
        to == IF k < n
              THEN Len(WrittenBeforeValue(t, k + 1, FALSE, ind, ml))
                     - (2 + (t.level + 1) * ind
                          + Len(t.token[2 * k + 1].data) + 2)
              ELSE Len(bytes) - Len(Closing("}", FALSE, FALSE, t.level * ind))
    IN  SubSeq(bytes, from, to)

C30_ColumnAtEveryPair ==
    (tpc = "format" /\ tree.kind = "Object"
        /\ ~can_compact(tree, indent, max_len, None))
    => \A k \in 1..(Len(tree.token) \div 2) :
          CurIndentAt(tree, k, FALSE, indent)
              = (tree.level + 1) * indent + Len(tree.token[2 * k - 1].data) + 2

C30_SamePairSameLayout ==
    (tpc = "format" /\ tree.kind = "Object"
        /\ ~can_compact(tree, indent, max_len, None))
    => \A j, k \in 1..(Len(tree.token) \div 2) :
          (/\ tree.token[2 * j - 1] = tree.token[2 * k - 1]
           /\ tree.token[2 * j] = tree.token[2 * k])
          => ValueBytes(tree, j, tres.ret.out, indent, max_len)
                = ValueBytes(tree, k, tres.ret.out, indent, max_len)

(* C30: position independence.  In Token::format of an Object written
   expanded at level L the column handed to the key-fit test is
   (L + 1) * indent + key length + 2 for the first pair and for every later
   pair, so two pairs with the same key and the same value are laid out the
   same way wherever they stand. *)
C30_PositionIndependent == C30_ColumnAtEveryPair /\ C30_SamePairSameLayout

-----------------------------------------------------------------------------
(* The Formatter calls a serializer makes for the value the tree t stands
   for, applied in order to the formatter state st: a string by
   begin_string, write_string_fragment, end_string; any other scalar by its
   write function; a compound by its begin call, its children, its end
   call.  A call that fails ends the serialization. *)
IsStringData(t) ==
    /\ t.kind = "Data" /\ Len(t.data) >= 2
    /\ t.data[1] = dq /\ t.data[Len(t.data)] = dq

SerializeString(data, st, ind, ml) ==
    LET inner == SubSeq(data, 2, Len(data) - 1)
        s1 == begin_string(st.token, st.level, st.out)
        s2 == IF inner = <<>> THEN s1
              ELSE write_string_fragment(s1.token, s1.level, s1.out, inner)
    IN  IF s2.err # "Ok" THEN s2
        ELSE end_string(s2.token, s2.level, s2.out, ind, ml)

RECURSIVE Serialize(_, _, _, _)
RECURSIVE SerializeAll(_, _, _, _)

SerializeAll(ts, st, ind, ml) ==
    IF ts = <<>> THEN st
    ELSE LET s1 == Serialize(Head(ts), st, ind, ml)
         IN  IF s1.err # "Ok" THEN s1
             ELSE SerializeAll(Tail(ts), s1, ind, ml)

Serialize(t, st, ind, ml) ==
    CASE IsStringData(t) -> SerializeString(t.data, st, ind, ml)
      [] t.kind = "Data" /\ ~IsStringData(t) ->
           write_func(st.token, st.level, st.out, ind, ml, t.data)
      [] t.kind = "Array" ->
           LET s1 == SerializeAll(t.token,
                        begin_array(st.token, st.level, st.out), ind, ml)
           IN  IF s1.err # "Ok" THEN s1
               ELSE end_array(s1.token, s1.level, s1.out, ind, ml)
      [] t.kind = "Object" ->
           LET s1 == SerializeAll(t.token,
                        begin_object(st.token, st.level, st.out), ind, ml)
           IN  IF s1.err # "Ok" THEN s1
               ELSE end_object(s1.token, s1.level, s1.out, ind, ml)
      [] OTHER -> st

(* What a formatter constructed anew writes for the value of t *)
FormatterWrites(t, ind, ml) == Serialize(t, St(<<>>, 0, <<>>, "Ok"), ind, ml)

(* C31: the two representations agree.  With max_len unset, for every
   well-formed value and every indent, the bytes PrettyCompactFormatter
   writes for the value's calls are the bytes Token::format writes for the
   tree of the same value whose levels are the begin markers' levels, and
   both succeed. *)
C31_RepresentationsAgree ==
    (tpc = "format" /\ max_len = None /\ ZeroFree(tree))
        => /\ tres.ret.err = "Ok"
           /\ FormatterWrites(tree, indent, max_len).err = "Ok"
           /\ FormatterWrites(tree, indent, max_len).token = <<>>
           /\ tres.ret.out = FormatterWrites(tree, indent, max_len).out

C31_Witness ==
    /\ tpc = "format" /\ max_len = None /\ indent = 10
    /\ tree = Object(0, <<Data(<<dq, "a", dq>>),
                          Array(1, <<Data(<<"1">>), Array(2, <<>>)>>)>>)
    /\ tres.ret.out = FormatterWrites(tree, indent, max_len).out
    /\ Len(tres.ret.out) = 100

====
